---- MODULE Spec2Model ----
(***************************************************************************)
(* Iterative refinement engine (engine.py) driving the rule-based          *)
(* improvement operators and the model-backed merge operator               *)
(* (operators.py) over a KnowledgeState (knowledge_state.py).              *)
(*                                                                         *)
(* Python objects with identity are kept in two heaps, so that the         *)
(* sharing the operators create (shallow dict copies, Claim objects        *)
(* mutated in place, metadata lists appended to in place) is visible:      *)
(*   claimHeap : address -> Claim record                                   *)
(*   listHeap  : address -> the list stored under a metadata key           *)
(* A KnowledgeState is a record of references into these heaps.  The      *)
(* claims dict is the sequence of the addresses of its values in insertion *)
(* order; its keys are the ids of the Claim objects, as in every state the *)
(* repository builds (claims[claim.id] = claim).                           *)
(*                                                                         *)
(* Strings are small integers ordered like the strings; confidences are    *)
(* hundredths (0.4 = 40); a similarity threshold is a fraction <<n, d>>.   *)
(* The verbose flag only prints and is left out.                           *)
(***************************************************************************)
EXTENDS Integers, Sequences, FiniteSets, TLC

\* ------------------------------------------------------------- bounds ---
\* claims of a generated initial state
MaxClaims == 2
\* evidence entries of a generated initial state, over all its claims
MaxTotalEvidence == 2
\* largest max_iterations of a generated engine
MaxIterations == 2

\* ---------------------------------------------------------- constants ---
None == -1
Absent == 0
DemoMaxIterations == 50
DemoThreshold == <<1, 2>>
DemoMinConfidence == 50
\* the confidence 0.9 of the sample claims c1 and c5
SampleConfidence == 90
\* min_confidence 1.0, below which every generated claim lies
FullConfidence == 100
\* similarity_threshold 1.0: one evidence set contains the other
FullOverlap == <<1, 1>>

\* the evidence strings of generated states ("a" < "b")
EvidenceItems == {1, 2}
ConfidenceValues == {40, 90}

\* ------------------------------------------------------------ helpers ---
Range(s) == {s[i] : i \in 1..Len(s)}

Min2(a, b) == IF a <= b THEN a ELSE b

Max2(a, b) == IF a >= b THEN a ELSE b

SetMin(S) == CHOOSE x \in S : \A y \in S : x <= y

RECURSIVE SortedList(_)
\* unique_evidence = list(set(...)); unique_evidence.sort()
SortedList(S) ==
  IF S = {} THEN <<>>
  ELSE LET m == SetMin(S) IN <<m>> \o SortedList(S \ {m})

\* every order list(some_set) can come out in (string hashing is randomized)
ListsOfSet(S) ==
  {s \in [1..Cardinality(S) -> S] : \A i, j \in 1..Cardinality(S) : s[i] = s[j] => i = j}

RECURSIVE SumSeq(_)
SumSeq(s) == IF s = <<>> THEN 0 ELSE s[1] + SumSeq(Tail(s))

RECURSIVE Filter(_, _)
\* the elements of s, in order, that are not in the set drop
Filter(s, drop) ==
  IF s = <<>> THEN <<>>
  ELSE (IF s[1] \in drop THEN <<>> ELSE <<s[1]>>) \o Filter(Tail(s), drop)

\* pruning that also drops the entries whose list mentions a dropped key
DelKeys_Mentioning(d, drop) ==
  [k \in {x \in (DOMAIN d) \ drop : Range(d[x]) \cap drop = {}} |-> d[k]]

\* dict.copy() followed by `del d[k]` for the keys of drop that are present
DelKeys(d, drop) == [k \in (DOMAIN d) \ drop |-> d[k]]

\* ------------------------------------------------------ data model ------
Claim(id, evidence, confidence) ==
  [id |-> id, text |-> id, evidence |-> evidence, section |-> id,
   confidence |-> confidence]

KnowledgeState(claims, relationships, metadata) ==
  [claims |-> claims, relationships |-> relationships, metadata |-> metadata]

\* the view of a state: what a reader of the object graph sees
ClaimsOf(st, ch) == [i \in 1..Len(st.claims) |-> ch[st.claims[i]]]

\* the keys of state.claims
IdsOf(st, ch) == {ch[st.claims[i]].id : i \in 1..Len(st.claims)}

MetaListOf(ref, lh) == IF ref = Absent THEN <<>> ELSE lh[ref]

ViewOf(st, ch, lh) ==
  [claims |-> ClaimsOf(st, ch),
   relationships |-> st.relationships,
   has_merges |-> st.metadata.merges # Absent,
   merges |-> MetaListOf(st.metadata.merges, lh),
   has_weak_removals |-> st.metadata.weak_removals # Absent,
   weak_removals |-> MetaListOf(st.metadata.weak_removals, lh)]

\* ------------------------------------------------------- operators ------
NormalizeEvidenceOperator == [name |-> "normalize_evidence"]

MergeDuplicateClaimsOperator(t) ==
  [name |-> "merge_duplicates", similarity_threshold |-> t]

RemoveWeakClaimsOperator(m) == [name |-> "remove_weak", min_confidence |-> m]

LLMMergeDuplicateClaimsOperator == [name |-> "llm_merge_duplicates"]

\* an instance of the base class (or of a subclass that does not override apply)
ImprovementOperator(name) == [name |-> name]

\* the size comparison written the wrong way round
verify_invariants_Reversed(old_state, new_state) ==
  IF Len(new_state.claims) > Len(old_state.claims)
  THEN new_state.metadata.merges # Absent
  ELSE TRUE

\* the check satisfied by either record-keeping key
verify_invariants_AnyKey(old_state, new_state) ==
  IF Len(new_state.claims) < Len(old_state.claims)
  THEN new_state.metadata.merges # Absent \/ new_state.metadata.weak_removals # Absent
  ELSE TRUE

\* ImprovementOperator.verify_invariants (the default every operator inherits)
verify_invariants(old_state, new_state) ==
  IF Len(new_state.claims) < Len(old_state.claims)
  THEN new_state.metadata.merges # Absent
  ELSE TRUE

\* normalization that loses the evidence instead of tidying it
NormalizeApply_DropsEvidence(st, ch, lh) ==
  LET n == Len(st.claims)
      unique_evidence(i) == <<>>
      new_claim(i) == [ch[st.claims[i]] EXCEPT !.evidence = unique_evidence(i)]
  IN {[state |-> KnowledgeState([i \in 1..n |-> Len(ch) + i],
                                st.relationships, st.metadata),
       claimHeap |-> ch \o [i \in 1..n |-> new_claim(i)],
       listHeap |-> lh,
       modified |-> \E i \in 1..n :
                       \/ Len(unique_evidence(i)) # Len(ch[st.claims[i]].evidence)
                       \/ unique_evidence(i) # ch[st.claims[i]].evidence]}

\* normalization that notices removed duplicates but not a changed order
NormalizeApply_LengthOnly(st, ch, lh) ==
  LET n == Len(st.claims)
      unique_evidence(i) == SortedList(Range(ch[st.claims[i]].evidence))
      new_claim(i) == [ch[st.claims[i]] EXCEPT !.evidence = unique_evidence(i)]
  IN {[state |-> KnowledgeState([i \in 1..n |-> Len(ch) + i],
                                st.relationships, st.metadata),
       claimHeap |-> ch \o [i \in 1..n |-> new_claim(i)],
       listHeap |-> lh,
       modified |-> \E i \in 1..n :
                       Len(unique_evidence(i)) # Len(ch[st.claims[i]].evidence)]}

\* normalization that reports a modification every time
NormalizeApply_AlwaysModified(st, ch, lh) ==
  LET n == Len(st.claims)
      unique_evidence(i) == SortedList(Range(ch[st.claims[i]].evidence))
      new_claim(i) == [ch[st.claims[i]] EXCEPT !.evidence = unique_evidence(i)]
  IN {[state |-> KnowledgeState([i \in 1..n |-> Len(ch) + i],
                                st.relationships, st.metadata),
       claimHeap |-> ch \o [i \in 1..n |-> new_claim(i)],
       listHeap |-> lh,
       modified |-> TRUE]}

\* NormalizeEvidenceOperator.apply: a fresh state with a fresh Claim per claim
NormalizeApply(st, ch, lh) ==
  LET n == Len(st.claims)
      unique_evidence(i) == SortedList(Range(ch[st.claims[i]].evidence))
      new_claim(i) == [ch[st.claims[i]] EXCEPT !.evidence = unique_evidence(i)]
  IN {[state |-> KnowledgeState([i \in 1..n |-> Len(ch) + i],
                                st.relationships, st.metadata),
       claimHeap |-> ch \o [i \in 1..n |-> new_claim(i)],
       listHeap |-> lh,
       modified |-> \E i \in 1..n :
                       \/ Len(unique_evidence(i)) # Len(ch[st.claims[i]].evidence)
                       \/ unique_evidence(i) # ch[st.claims[i]].evidence]}

\* removal that also drops the claims exactly at min_confidence
RemoveWeakApply_DropsBoundary(st, ch, lh, min_confidence) ==
  LET weak == {a \in Range(st.claims) : ~(ch[a].confidence > min_confidence)}
      removed_claims == [i \in 1..Len(Filter(st.claims, Range(st.claims) \ weak))
                           |-> ch[Filter(st.claims, Range(st.claims) \ weak)[i]].id]
      modified == weak # {}
      fresh == modified /\ st.metadata.weak_removals = Absent
      ref == IF fresh THEN Len(lh) + 1 ELSE st.metadata.weak_removals
      lh1 == IF fresh THEN Append(lh, <<>>) ELSE lh
  IN {[state |-> KnowledgeState(
                   Filter(st.claims, weak),
                   DelKeys(st.relationships, Range(removed_claims)),
                   IF modified THEN [st.metadata EXCEPT !.weak_removals = ref]
                   ELSE st.metadata),
       claimHeap |-> ch,
       listHeap |-> IF modified
                    THEN [lh1 EXCEPT ![ref] = lh1[ref] \o removed_claims]
                    ELSE lh,
       modified |-> modified]}

\* RemoveWeakClaimsOperator.apply: the kept Claim objects are shared with the
\* input; an existing weak_removals list is extended in place
RemoveWeakApply(st, ch, lh, min_confidence) ==
  LET weak == {a \in Range(st.claims) : ~(ch[a].confidence >= min_confidence)}
      removed_claims == [i \in 1..Len(Filter(st.claims, Range(st.claims) \ weak))
                           |-> ch[Filter(st.claims, Range(st.claims) \ weak)[i]].id]
      modified == weak # {}
      fresh == modified /\ st.metadata.weak_removals = Absent
      ref == IF fresh THEN Len(lh) + 1 ELSE st.metadata.weak_removals
      lh1 == IF fresh THEN Append(lh, <<>>) ELSE lh
  IN {[state |-> KnowledgeState(
                   Filter(st.claims, weak),
                   DelKeys(st.relationships, Range(removed_claims)),
                   IF modified THEN [st.metadata EXCEPT !.weak_removals = ref]
                   ELSE st.metadata),
       claimHeap |-> ch,
       listHeap |-> IF modified
                    THEN [lh1 EXCEPT ![ref] = lh1[ref] \o removed_claims]
                    ELSE lh,
       modified |-> modified]}

\* one pair, merged only above the threshold
MergePair_StrictThreshold(acc, a1, a2, t) ==
  LET claim1 == acc.claimHeap[a1]
      claim2 == acc.claimHeap[a2]
      evidence1 == Range(claim1.evidence)
      evidence2 == Range(claim2.evidence)
      overlap == Cardinality(evidence1 \cap evidence2)
      least == Min2(Cardinality(evidence1), Cardinality(evidence2))
      fresh == acc.metadata.merges = Absent
      ref == IF fresh THEN Len(acc.listHeap) + 1 ELSE acc.metadata.merges
      lh1 == IF fresh THEN Append(acc.listHeap, <<>>) ELSE acc.listHeap
  IN IF claim1.id \in acc.claims_to_remove \/ claim2.id \in acc.claims_to_remove
     THEN acc
     ELSE IF evidence1 = {} \/ evidence2 = {}
     THEN acc
     ELSE IF overlap * t[2] > t[1] * least
     THEN [claimHeap |-> [acc.claimHeap EXCEPT
                            ![a1].evidence = SortedList(evidence1 \cup evidence2),
                            ![a1].confidence = Max2(claim1.confidence, claim2.confidence)],
           listHeap |-> [lh1 EXCEPT ![ref] = Append(lh1[ref],
                            [kept |-> claim1.id, removed |-> claim2.id,
                             similarity |-> <<overlap, least>>])],
           metadata |-> [acc.metadata EXCEPT !.merges = ref],
           claims_to_remove |-> acc.claims_to_remove \cup {claim2.id},
           reassigned |-> acc.reassigned \cup {a1},
           modified |-> TRUE]
     ELSE acc

\* one pair, the kept claim taking the lower confidence
MergePair_LowerConfidence(acc, a1, a2, t) ==
  LET claim1 == acc.claimHeap[a1]
      claim2 == acc.claimHeap[a2]
      evidence1 == Range(claim1.evidence)
      evidence2 == Range(claim2.evidence)
      overlap == Cardinality(evidence1 \cap evidence2)
      least == Min2(Cardinality(evidence1), Cardinality(evidence2))
      fresh == acc.metadata.merges = Absent
      ref == IF fresh THEN Len(acc.listHeap) + 1 ELSE acc.metadata.merges
      lh1 == IF fresh THEN Append(acc.listHeap, <<>>) ELSE acc.listHeap
  IN IF claim1.id \in acc.claims_to_remove \/ claim2.id \in acc.claims_to_remove
     THEN acc
     ELSE IF evidence1 = {} \/ evidence2 = {}
     THEN acc
     ELSE IF overlap * t[2] >= t[1] * least
     THEN [claimHeap |-> [acc.claimHeap EXCEPT
                            ![a1].evidence = SortedList(evidence1 \cup evidence2),
                            ![a1].confidence = Min2(claim1.confidence, claim2.confidence)],
           listHeap |-> [lh1 EXCEPT ![ref] = Append(lh1[ref],
                            [kept |-> claim1.id, removed |-> claim2.id,
                             similarity |-> <<overlap, least>>])],
           metadata |-> [acc.metadata EXCEPT !.merges = ref],
           claims_to_remove |-> acc.claims_to_remove \cup {claim2.id},
           reassigned |-> acc.reassigned \cup {a1},
           modified |-> TRUE]
     ELSE acc

\* one pair, merged without setting the modified flag
MergePair_UnflaggedMerge(acc, a1, a2, t) ==
  LET claim1 == acc.claimHeap[a1]
      claim2 == acc.claimHeap[a2]
      evidence1 == Range(claim1.evidence)
      evidence2 == Range(claim2.evidence)
      overlap == Cardinality(evidence1 \cap evidence2)
      least == Min2(Cardinality(evidence1), Cardinality(evidence2))
      fresh == acc.metadata.merges = Absent
      ref == IF fresh THEN Len(acc.listHeap) + 1 ELSE acc.metadata.merges
      lh1 == IF fresh THEN Append(acc.listHeap, <<>>) ELSE acc.listHeap
  IN IF claim1.id \in acc.claims_to_remove \/ claim2.id \in acc.claims_to_remove
     THEN acc
     ELSE IF evidence1 = {} \/ evidence2 = {}
     THEN acc
     ELSE IF overlap * t[2] >= t[1] * least
     THEN [claimHeap |-> [acc.claimHeap EXCEPT
                            ![a1].evidence = SortedList(evidence1 \cup evidence2),
                            ![a1].confidence = Max2(claim1.confidence, claim2.confidence)],
           listHeap |-> [lh1 EXCEPT ![ref] = Append(lh1[ref],
                            [kept |-> claim1.id, removed |-> claim2.id,
                             similarity |-> <<overlap, least>>])],
           metadata |-> [acc.metadata EXCEPT !.merges = ref],
           claims_to_remove |-> acc.claims_to_remove \cup {claim2.id},
           reassigned |-> acc.reassigned \cup {a1},
           modified |-> acc.modified]
     ELSE acc

\* one pair (claim1, claim2) of the double loop of MergeDuplicateClaimsOperator.apply;
\* acc carries the heaps, the metadata of new_state, claims_to_remove, modified and
\* the addresses of the claims whose evidence was reassigned
MergePair(acc, a1, a2, t) ==
  LET claim1 == acc.claimHeap[a1]
      claim2 == acc.claimHeap[a2]
      evidence1 == Range(claim1.evidence)
      evidence2 == Range(claim2.evidence)
      overlap == Cardinality(evidence1 \cap evidence2)
      least == Min2(Cardinality(evidence1), Cardinality(evidence2))
      fresh == acc.metadata.merges = Absent
      ref == IF fresh THEN Len(acc.listHeap) + 1 ELSE acc.metadata.merges
      lh1 == IF fresh THEN Append(acc.listHeap, <<>>) ELSE acc.listHeap
  IN IF claim1.id \in acc.claims_to_remove \/ claim2.id \in acc.claims_to_remove
     THEN acc
     ELSE IF evidence1 = {} \/ evidence2 = {}
     THEN acc
     ELSE IF overlap * t[2] >= t[1] * least
     THEN [claimHeap |-> [acc.claimHeap EXCEPT
                            ![a1].evidence = SortedList(evidence1 \cup evidence2),
                            ![a1].confidence = Max2(claim1.confidence, claim2.confidence)],
           listHeap |-> [lh1 EXCEPT ![ref] = Append(lh1[ref],
                            [kept |-> claim1.id, removed |-> claim2.id,
                             similarity |-> <<overlap, least>>])],
           metadata |-> [acc.metadata EXCEPT !.merges = ref],
           claims_to_remove |-> acc.claims_to_remove \cup {claim2.id},
           reassigned |-> acc.reassigned \cup {a1},
           modified |-> TRUE]
     ELSE acc

RECURSIVE MergeLoop(_, _, _, _, _)
\* for i, claim1 in enumerate(claim_list): for claim2 in claim_list[i+1:]
MergeLoop(acc, claim_list, i, j, t) ==
  IF i > Len(claim_list) THEN acc
  ELSE IF j > Len(claim_list) THEN MergeLoop(acc, claim_list, i + 1, i + 2, t)
  ELSE MergeLoop(MergePair(acc, claim_list[i], claim_list[j], t), claim_list, i, j + 1, t)

\* the orders the reassigned evidence lists can have: claim1.evidence = list(a set)
EvidenceOrders(ch, reassigned) ==
  {f \in [reassigned -> UNION {ListsOfSet(Range(ch[a].evidence)) : a \in reassigned}] :
     \A a \in reassigned : f[a] \in ListsOfSet(Range(ch[a].evidence))}

\* MergeDuplicateClaimsOperator.apply: new_state shares its Claim objects and an
\* existing merges list with the input state
MergeApply(st, ch, lh, t) ==
  LET acc == MergeLoop([claimHeap |-> ch, listHeap |-> lh, metadata |-> st.metadata,
                        claims_to_remove |-> {}, reassigned |-> {}, modified |-> FALSE],
                       st.claims, 1, 2, t)
      gone == {a \in Range(st.claims) : ch[a].id \in acc.claims_to_remove}
  IN {[state |-> KnowledgeState(Filter(st.claims, gone),
                                DelKeys(st.relationships, acc.claims_to_remove),
                                acc.metadata),
       claimHeap |-> [a \in 1..Len(ch) |->
                        IF a \in acc.reassigned
                        THEN [acc.claimHeap[a] EXCEPT !.evidence = f[a]]
                        ELSE acc.claimHeap[a]],
       listHeap |-> acc.listHeap,
       modified |-> acc.modified] : f \in EvidenceOrders(acc.claimHeap, acc.reassigned)}

\* one entry of merge_data['merges'] in the loop of
\* LLMMergeDuplicateClaimsOperator.apply; new_state.claims still holds every claim
\* of st (the deletions come after the loop) and `modified` is the one flag of the
\* whole loop
LLMMergeEntry(acc, st, merge) ==
  LET keep_id == merge.keep
      remove_ids == merge.remove
      addr(id) == CHOOSE a \in Range(st.claims) : acc.claimHeap[a].id = id
      present == {remove_ids[i] : i \in {x \in 1..Len(remove_ids) :
                                            remove_ids[x] \in IdsOf(st, acc.claimHeap)}}
      kept_claim == acc.claimHeap[addr(keep_id)]
      evidence_set == Range(kept_claim.evidence)
                        \cup UNION {Range(acc.claimHeap[addr(id)].evidence) : id \in present}
      modified == acc.modified \/ present # {}
      fresh == acc.metadata.merges = Absent
      ref == IF fresh THEN Len(acc.listHeap) + 1 ELSE acc.metadata.merges
      lh1 == IF fresh THEN Append(acc.listHeap, <<>>) ELSE acc.listHeap
  IN IF keep_id \notin IdsOf(st, acc.claimHeap)
     THEN acc
     ELSE IF modified
     THEN [claimHeap |-> [acc.claimHeap EXCEPT
                            ![addr(keep_id)].evidence = SortedList(evidence_set)],
           listHeap |-> [lh1 EXCEPT ![ref] = Append(lh1[ref],
                            [kept |-> keep_id, removed |-> remove_ids,
                             reason |-> "semantic similarity"])],
           metadata |-> [acc.metadata EXCEPT !.merges = ref],
           claims_to_remove |-> acc.claims_to_remove \cup present,
           reassigned |-> acc.reassigned \cup {addr(keep_id)},
           modified |-> TRUE]
     ELSE acc

RECURSIVE LLMMergeLoop(_, _, _, _)
\* for merge in merge_data['merges'], up to and including entry number last
LLMMergeLoop(acc, st, merges, last) ==
  IF last = 0 THEN acc
  ELSE LLMMergeEntry(LLMMergeLoop(acc, st, merges, last - 1), st, merges[last])

\* the accumulators before the first entry
LLMMergeStart(st, ch, lh) ==
  [claimHeap |-> ch, listHeap |-> lh, metadata |-> st.metadata,
   claims_to_remove |-> {}, reassigned |-> {}, modified |-> FALSE]

\* LLMMergeDuplicateClaimsOperator.apply for one response of the service: the
\* text parsed as JSON or not, and the list under 'merges' (missing = empty)
LLMMergeApply(st, ch, lh, response) ==
  IF Len(st.claims) < 2 \/ ~response.parsed \/ response.merges = <<>>
  THEN {[state |-> st, claimHeap |-> ch, listHeap |-> lh, modified |-> FALSE]}
  ELSE LET acc == LLMMergeLoop(LLMMergeStart(st, ch, lh), st, response.merges,
                               Len(response.merges))
           gone == {a \in Range(st.claims) : ch[a].id \in acc.claims_to_remove}
       IN {[state |-> KnowledgeState(Filter(st.claims, gone), st.relationships,
                                     acc.metadata),
            claimHeap |-> [a \in 1..Len(ch) |->
                             IF a \in acc.reassigned
                             THEN [acc.claimHeap[a] EXCEPT !.evidence = f[a]]
                             ELSE acc.claimHeap[a]],
            listHeap |-> acc.listHeap,
            modified |-> acc.modified] : f \in EvidenceOrders(acc.claimHeap, acc.reassigned)}

\* the ids a response can name: those of the generated claims and 0, which is
\* never the id of a claim
ResponseIds == 0..MaxClaims

\* the instructions of a response: a keep id and a remove list of one id
MergeInstructions == [keep : ResponseIds, remove : {<<x>> : x \in ResponseIds}]

\* what the service can answer: text that is no JSON, or a list of up to two
\* instructions
Responses ==
  {[parsed |-> FALSE, merges |-> <<>>], [parsed |-> TRUE, merges |-> <<>>]}
    \cup {[parsed |-> TRUE, merges |-> <<m>>] : m \in MergeInstructions}
    \cup {[parsed |-> TRUE, merges |-> <<m, n>>] : m, n \in MergeInstructions}

\* ImprovementOperator.apply raises NotImplementedError: it returns no candidate
ImprovementOperatorApply(st, ch, lh) == {}

\* operator.apply(state): the candidates (new_state, modified) with the heaps after
\* the call
Apply(op, st, ch, lh) ==
  CASE op.name = "normalize_evidence" -> NormalizeApply(st, ch, lh)
    [] op.name = "merge_duplicates" -> MergeApply(st, ch, lh, op.similarity_threshold)
    [] op.name = "remove_weak" -> RemoveWeakApply(st, ch, lh, op.min_confidence)
    [] op.name = "llm_merge_duplicates" ->
         UNION {LLMMergeApply(st, ch, lh, response) : response \in Responses}
    [] OTHER -> ImprovementOperatorApply(st, ch, lh)

\* ---------------------------------------------------------- inputs ------
EvidenceLists == UNION {[1..k -> EvidenceItems] : k \in 0..MaxTotalEvidence}

ClaimLists ==
  {cl \in UNION {[1..n -> [evidence : EvidenceLists, confidence : ConfidenceValues]] :
                   n \in 0..MaxClaims} :
     SumSeq([i \in 1..Len(cl) |-> Len(cl[i].evidence)]) <= MaxTotalEvidence}

\* a relationships dict with a key for claim 2 only, whose list names both claims
InitialRelationships == [k \in {2} |-> <<1, 2>>]

\* the metadata keys the caller's state may already hold (say from an earlier run)
MetadataChoices ==
  {[has_merges |-> FALSE, has_weak_removals |-> FALSE],
   [has_merges |-> TRUE, has_weak_removals |-> FALSE],
   [has_merges |-> FALSE, has_weak_removals |-> TRUE]}

OperatorLists ==
  LET N == NormalizeEvidenceOperator
      M == MergeDuplicateClaimsOperator(DemoThreshold)
      R == RemoveWeakClaimsOperator(DemoMinConfidence)
  IN {<<N, M, R>>, <<N, M>>, <<M, N>>, <<R>>, <<R, M, N>>, <<M, R, N>>}

\* examples/demo.py: create_sample_state (evidence strings numbered in their
\* lexicographic order) and the operator list of main
SampleClaims ==
  <<Claim(1, <<1, 2>>, 90), Claim(2, <<1, 3>>, 85), Claim(3, <<5>>, 95),
    Claim(4, <<4>>, 40), Claim(5, <<6, 6>>, 90)>>

SampleRelationships == [k \in {1, 3} |-> IF k = 1 THEN <<2>> ELSE <<5>>]

DemoOperators ==
  <<NormalizeEvidenceOperator, MergeDuplicateClaimsOperator(DemoThreshold),
    RemoveWeakClaimsOperator(DemoMinConfidence)>>

\* the two orders of normalizing and merging
NormalizeThenMerge ==
  <<NormalizeEvidenceOperator, MergeDuplicateClaimsOperator(DemoThreshold)>>

MergeThenNormalize ==
  <<MergeDuplicateClaimsOperator(DemoThreshold), NormalizeEvidenceOperator>>

\* RemoveWeak with the confidence of c1 and c5 as min_confidence
RemoveAtSampleConfidence == <<RemoveWeakClaimsOperator(SampleConfidence)>>

\* three claims of which the third shares evidence with each of the other two,
\* while those two share none
ChainClaims ==
  <<Claim(1, <<1>>, 90), Claim(2, <<2>>, 40), Claim(3, <<1, 2>>, 90)>>

\* the sample state is also run with the two orders of normalizing and merging and
\* with RemoveWeak at the confidence of two of its claims
Inputs ==
  {[claims |-> [i \in 1..Len(cl) |-> Claim(i, cl[i].evidence, cl[i].confidence)],
    relationships |-> InitialRelationships, has_merges |-> md.has_merges,
    has_weak_removals |-> md.has_weak_removals,
    operators |-> ops, max_iterations |-> mi] :
     cl \in ClaimLists, md \in MetadataChoices,
     ops \in OperatorLists, mi \in 0..MaxIterations}
  \cup {[claims |-> SampleClaims, relationships |-> SampleRelationships,
         has_merges |-> FALSE, has_weak_removals |-> FALSE,
         operators |-> DemoOperators,
         max_iterations |-> DemoMaxIterations]}
  \cup {[claims |-> SampleClaims, relationships |-> SampleRelationships,
         has_merges |-> FALSE, has_weak_removals |-> FALSE,
         operators |-> ops, max_iterations |-> mi] :
          ops \in {NormalizeThenMerge, MergeThenNormalize, RemoveAtSampleConfidence},
          mi \in 0..MaxIterations}
  \cup {[claims |-> ChainClaims, relationships |-> InitialRelationships,
         has_merges |-> md.has_merges, has_weak_removals |-> md.has_weak_removals,
         operators |-> ops, max_iterations |-> mi] :
          md \in MetadataChoices, ops \in {NormalizeThenMerge, MergeThenNormalize},
          mi \in 0..MaxIterations}

\* ----------------------------------------------------------- state ------
VARIABLES operators, max_iterations, initial_state, claimHeap, listHeap,
          state, metrics, iteration, iteration_metrics, any_modified, opIndex,
          old_claim_count, new_state, modified, applications, stability, pc,
          initial_view

vars == <<operators, max_iterations, initial_state, claimHeap, listHeap,
          state, metrics, iteration, iteration_metrics, any_modified, opIndex,
          old_claim_count, new_state, modified, applications, stability, pc,
          initial_view>>

\* the lists the caller's metadata holds under 'merges' and 'weak_removals'
InitialLists(inp) ==
  (IF inp.has_merges THEN <<<<>>>> ELSE <<>>)
    \o (IF inp.has_weak_removals THEN <<<<>>>> ELSE <<>>)

\* the KnowledgeState the caller passes to refine
InitialState(inp) ==
  KnowledgeState([i \in 1..Len(inp.claims) |-> i], inp.relationships,
                 [merges |-> IF inp.has_merges THEN 1 ELSE Absent,
                  weak_removals |-> IF inp.has_weak_removals
                                    THEN Len(InitialLists(inp)) ELSE Absent])

\* IterativeRefinementEngine.__init__ and the first statements of refine;
\* initial_view keeps what the caller's state held before the call
InitFrom(inp) ==
  /\ operators = inp.operators
  /\ max_iterations = inp.max_iterations
  /\ claimHeap = inp.claims
  /\ listHeap = InitialLists(inp)
  /\ initial_state = InitialState(inp)
  /\ initial_view = ViewOf(InitialState(inp), inp.claims, InitialLists(inp))
  /\ state = initial_state
  /\ metrics = [iterations |-> <<>>, convergence_iteration |-> None,
                total_applications |-> 0, operators_applied |-> <<>>]
  /\ iteration = None
  /\ iteration_metrics = <<>>
  /\ any_modified = FALSE
  /\ opIndex = 0
  /\ old_claim_count = 0
  /\ new_state = initial_state
  /\ modified = FALSE
  /\ applications = [k \in 1..Len(inp.operators) |-> 0]
  /\ stability = <<>>
  /\ pc = "loop"

\* the engine built and refine called on one of the inputs
Init == \E inp \in Inputs : InitFrom(inp)

NextIteration == IF iteration = None THEN 0 ELSE iteration + 1

\* the loop head with an off-by-one range
BeginIteration_OffByOne ==
  /\ pc = "loop"
  /\ NextIteration <= max_iterations
  /\ iteration' = NextIteration
  /\ iteration_metrics' = [iteration |-> NextIteration, num_claims |-> Len(state.claims),
                           modifications |-> <<>>]
  /\ any_modified' = FALSE
  /\ opIndex' = 1
  /\ pc' = "operators"
  /\ UNCHANGED <<operators, max_iterations, initial_state, claimHeap, listHeap, state,
                 metrics, old_claim_count, new_state, modified, applications, stability, initial_view>>

\* the loop head recording the claim count of the initial state every time
BeginIteration_CountsInitial ==
  /\ pc = "loop"
  /\ NextIteration < max_iterations
  /\ iteration' = NextIteration
  /\ iteration_metrics' = [iteration |-> NextIteration, num_claims |-> Len(initial_state.claims),
                           modifications |-> <<>>]
  /\ any_modified' = FALSE
  /\ opIndex' = 1
  /\ pc' = "operators"
  /\ UNCHANGED <<operators, max_iterations, initial_state, claimHeap, listHeap, state,
                 metrics, old_claim_count, new_state, modified, applications, stability, initial_view>>

\* for iteration in range(self.max_iterations): the head of one more iteration
BeginIteration ==
  /\ pc = "loop"
  /\ NextIteration < max_iterations
  /\ iteration' = NextIteration
  /\ iteration_metrics' = [iteration |-> NextIteration, num_claims |-> Len(state.claims),
                           modifications |-> <<>>]
  /\ any_modified' = FALSE
  /\ opIndex' = 1
  /\ pc' = "operators"
  /\ UNCHANGED <<operators, max_iterations, initial_state, claimHeap, listHeap, state,
                 metrics, old_claim_count, new_state, modified, applications, stability, initial_view>>

\* the counter assigned 1 instead of incremented
Increment_Reset(d, name) ==
  [n \in (DOMAIN d) \cup {name} |-> IF n \in DOMAIN d
                                     THEN (IF n = name THEN 1 ELSE d[n])
                                     ELSE 1]

\* metrics['operators_applied'][name] += 1 on a defaultdict(int)
Increment(d, name) ==
  [n \in (DOMAIN d) \cup {name} |-> IF n \in DOMAIN d
                                     THEN (IF n = name THEN d[n] + 1 ELSE d[n])
                                     ELSE 1]

\* one operator, with the modification counted before the invariant check
ApplyOperator_CountBeforeCheck ==
  /\ pc = "operators"
  /\ opIndex <= Len(operators)
  /\ LET operator == operators[opIndex] IN
     \E r \in Apply(operator, state, claimHeap, listHeap) :
       LET accepted == verify_invariants(state, r.state) IN
       /\ old_claim_count' = Len(state.claims)
       /\ new_state' = r.state
       /\ modified' = r.modified
       /\ claimHeap' = r.claimHeap
       /\ listHeap' = r.listHeap
       /\ applications' = [applications EXCEPT ![opIndex] = @ + 1]
       /\ state' = IF accepted THEN r.state ELSE state
       /\ IF r.modified
          THEN /\ any_modified' = TRUE
               /\ metrics' = [metrics EXCEPT !.operators_applied =
                                Increment(@, operator.name)]
               /\ iteration_metrics' =
                    [iteration_metrics EXCEPT !.modifications =
                       Append(@, [operator |-> operator.name,
                                  claims_before |-> Len(state.claims),
                                  claims_after |-> Len(r.state.claims)])]
          ELSE UNCHANGED <<metrics, iteration_metrics, any_modified>>
  /\ opIndex' = opIndex + 1
  /\ UNCHANGED <<operators, max_iterations, initial_state, iteration, stability, pc,
                 initial_view>>

\* one operator, with an unmodified candidate dropped instead of adopted
ApplyOperator_KeepOnUnmodified ==
  /\ pc = "operators"
  /\ opIndex <= Len(operators)
  /\ LET operator == operators[opIndex] IN
     \E r \in Apply(operator, state, claimHeap, listHeap) :
       LET accepted == verify_invariants(state, r.state) IN
       /\ old_claim_count' = Len(state.claims)
       /\ new_state' = r.state
       /\ modified' = r.modified
       /\ claimHeap' = r.claimHeap
       /\ listHeap' = r.listHeap
       /\ applications' = [applications EXCEPT ![opIndex] = @ + 1]
       /\ IF ~accepted
          THEN UNCHANGED <<state, metrics, iteration_metrics, any_modified>>
          ELSE /\ state' = IF r.modified THEN r.state ELSE state
               /\ IF r.modified
                  THEN /\ any_modified' = TRUE
                       /\ metrics' = [metrics EXCEPT !.operators_applied =
                                        Increment(@, operator.name)]
                       /\ iteration_metrics' =
                            [iteration_metrics EXCEPT !.modifications =
                               Append(@, [operator |-> operator.name,
                                          claims_before |-> Len(state.claims),
                                          claims_after |-> Len(r.state.claims)])]
                  ELSE UNCHANGED <<metrics, iteration_metrics, any_modified>>
  /\ opIndex' = opIndex + 1
  /\ UNCHANGED <<operators, max_iterations, initial_state, iteration, stability, pc,
                 initial_view>>

\* the body of `for operator in self.operators` for one operator
ApplyOperator ==
  /\ pc = "operators"
  /\ opIndex <= Len(operators)
  /\ LET operator == operators[opIndex] IN
     \E r \in Apply(operator, state, claimHeap, listHeap) :
       LET accepted == verify_invariants(state, r.state) IN
       /\ old_claim_count' = Len(state.claims)
       /\ new_state' = r.state
       /\ modified' = r.modified
       /\ claimHeap' = r.claimHeap
       /\ listHeap' = r.listHeap
       /\ applications' = [applications EXCEPT ![opIndex] = @ + 1]
       /\ IF ~accepted
          THEN UNCHANGED <<state, metrics, iteration_metrics, any_modified>>
          ELSE /\ state' = r.state
               /\ IF r.modified
                  THEN /\ any_modified' = TRUE
                       /\ metrics' = [metrics EXCEPT !.operators_applied =
                                        Increment(@, operator.name)]
                       /\ iteration_metrics' =
                            [iteration_metrics EXCEPT !.modifications =
                               Append(@, [operator |-> operator.name,
                                          claims_before |-> Len(state.claims),
                                          claims_after |-> Len(r.state.claims)])]
                  ELSE UNCHANGED <<metrics, iteration_metrics, any_modified>>
  /\ opIndex' = opIndex + 1
  /\ UNCHANGED <<operators, max_iterations, initial_state, iteration, stability, pc,
                 initial_view>>

\* the end of one iteration without the break on convergence
EndIteration_NoBreak ==
  /\ pc = "operators"
  /\ opIndex > Len(operators)
  /\ metrics' = [metrics EXCEPT
                   !.iterations = Append(@, iteration_metrics),
                   !.convergence_iteration = IF ~any_modified THEN iteration ELSE @]
  /\ pc' = "loop"
  /\ UNCHANGED <<operators, max_iterations, initial_state, claimHeap, listHeap, state,
                 iteration, iteration_metrics, any_modified, opIndex, old_claim_count,
                 new_state, modified, applications, stability, initial_view>>

\* the end of one iteration with the convergence test inverted
EndIteration_BreakWhenModified ==
  /\ pc = "operators"
  /\ opIndex > Len(operators)
  /\ metrics' = [metrics EXCEPT
                   !.iterations = Append(@, iteration_metrics),
                   !.convergence_iteration = IF any_modified THEN iteration ELSE @]
  /\ pc' = IF any_modified THEN "finish" ELSE "loop"
  /\ UNCHANGED <<operators, max_iterations, initial_state, claimHeap, listHeap, state,
                 iteration, iteration_metrics, any_modified, opIndex, old_claim_count,
                 new_state, modified, applications, stability, initial_view>>

\* the end of one iteration: record the snapshot, then stop or go on
EndIteration ==
  /\ pc = "operators"
  /\ opIndex > Len(operators)
  /\ metrics' = [metrics EXCEPT
                   !.iterations = Append(@, iteration_metrics),
                   !.convergence_iteration = IF ~any_modified THEN iteration ELSE @]
  /\ pc' = IF ~any_modified THEN "finish" ELSE "loop"
  /\ UNCHANGED <<operators, max_iterations, initial_state, claimHeap, listHeap, state,
                 iteration, iteration_metrics, any_modified, opIndex, old_claim_count,
                 new_state, modified, applications, stability, initial_view>>

RECURSIVE SumValues(_)
\* sum(d.values())
SumValues(d) ==
  IF DOMAIN d = {} THEN 0
  ELSE LET k == CHOOSE k \in DOMAIN d : TRUE
       IN d[k] + SumValues([n \in (DOMAIN d) \ {k} |-> d[n]])

\* after the loop (exhausted or left by break): the totals and the final state
Finish ==
  /\ \/ pc = "finish"
     \/ pc = "loop" /\ ~(NextIteration < max_iterations)
  /\ metrics' = [iterations |-> metrics.iterations,
                 convergence_iteration |-> metrics.convergence_iteration,
                 total_applications |-> SumValues(metrics.operators_applied),
                 operators_applied |-> metrics.operators_applied,
                 final_state |-> state]
  /\ pc' = "returned"
  /\ UNCHANGED <<operators, max_iterations, initial_state, claimHeap, listHeap, state,
                 iteration, iteration_metrics, any_modified, opIndex, old_claim_count,
                 new_state, modified, applications, stability, initial_view>>

\* the analyzer reading the final count off the final state
StabilityOf_FinalStateCount(m) ==
  LET iterations == m.iterations
      claim_counts == [i \in 1..Len(iterations) |-> iterations[i].num_claims]
      changes_per_iteration == [i \in 1..Len(iterations) |-> Len(iterations[i].modifications)]
      truthy == m.convergence_iteration # None /\ m.convergence_iteration # 0
  IN [is_monotonic |-> \A i \in 1..(Len(claim_counts) - 1) :
                          claim_counts[i] >= claim_counts[i + 1],
      converged |-> m.convergence_iteration # None,
      convergence_speed |-> IF truthy THEN m.convergence_iteration ELSE Len(iterations),
      total_modifications |-> SumSeq(changes_per_iteration),
      claim_reduction |-> IF claim_counts # <<>>
                          THEN claim_counts[1] - claim_counts[Len(claim_counts)] ELSE 0,
      final_claim_count |-> Len(m.final_state.claims)]

\* the analyzer asking for strictly decreasing claim counts
StabilityOf_StrictDecrease(m) ==
  LET iterations == m.iterations
      claim_counts == [i \in 1..Len(iterations) |-> iterations[i].num_claims]
      changes_per_iteration == [i \in 1..Len(iterations) |-> Len(iterations[i].modifications)]
      truthy == m.convergence_iteration # None /\ m.convergence_iteration # 0
  IN [is_monotonic |-> \A i \in 1..(Len(claim_counts) - 1) :
                          claim_counts[i] > claim_counts[i + 1],
      converged |-> m.convergence_iteration # None,
      convergence_speed |-> IF truthy THEN m.convergence_iteration ELSE Len(iterations),
      total_modifications |-> SumSeq(changes_per_iteration),
      claim_reduction |-> IF claim_counts # <<>>
                          THEN claim_counts[1] - claim_counts[Len(claim_counts)] ELSE 0,
      final_claim_count |-> IF claim_counts # <<>>
                            THEN claim_counts[Len(claim_counts)] ELSE 0]

\* IterativeRefinementEngine.analyze_stability(metrics)
StabilityOf(m) ==
  LET iterations == m.iterations
      claim_counts == [i \in 1..Len(iterations) |-> iterations[i].num_claims]
      changes_per_iteration == [i \in 1..Len(iterations) |-> Len(iterations[i].modifications)]
      truthy == m.convergence_iteration # None /\ m.convergence_iteration # 0
  IN [is_monotonic |-> \A i \in 1..(Len(claim_counts) - 1) :
                          claim_counts[i] >= claim_counts[i + 1],
      converged |-> m.convergence_iteration # None,
      convergence_speed |-> IF truthy THEN m.convergence_iteration ELSE Len(iterations),
      total_modifications |-> SumSeq(changes_per_iteration),
      claim_reduction |-> IF claim_counts # <<>>
                          THEN claim_counts[1] - claim_counts[Len(claim_counts)] ELSE 0,
      final_claim_count |-> IF claim_counts # <<>>
                            THEN claim_counts[Len(claim_counts)] ELSE 0]

\* the caller runs analyze_stability on the record refine returned
AnalyzeStability ==
  /\ pc = "returned"
  /\ stability' = StabilityOf(metrics)
  /\ pc' = "analyzed"
  /\ UNCHANGED <<operators, max_iterations, initial_state, claimHeap, listHeap, state,
                 metrics, iteration, iteration_metrics, any_modified, opIndex,
                 old_claim_count, new_state, modified, applications, initial_view>>

Next ==
  \/ BeginIteration
  \/ ApplyOperator
  \/ EndIteration
  \/ Finish
  \/ AnalyzeStability

Spec == Init /\ [][Next]_vars

\* ------------------------------- an operator that lacks apply ----------
\* the operator list holds an operator whose apply is the base class's
Unimplemented(op) == Apply(op, state, claimHeap, listHeap) = {}

\* the engine going on with the next operator after the failed call
ApplyRaises_Tolerated ==
  /\ pc = "operators"
  /\ opIndex <= Len(operators)
  /\ Unimplemented(operators[opIndex])
  /\ old_claim_count' = Len(state.claims)
  /\ opIndex' = opIndex + 1
  /\ UNCHANGED <<operators, max_iterations, initial_state, claimHeap, listHeap, state,
                 metrics, iteration, iteration_metrics, any_modified, new_state, modified,
                 applications, stability, initial_view, pc>>

\* operator.apply(state) raises NotImplementedError; refine has no handler, so the
\* exception leaves refine and the run is over without a record
ApplyRaises ==
  /\ pc = "operators"
  /\ opIndex <= Len(operators)
  /\ Unimplemented(operators[opIndex])
  /\ old_claim_count' = Len(state.claims)
  /\ pc' = "raised"
  /\ UNCHANGED <<operators, max_iterations, initial_state, claimHeap, listHeap, state,
                 metrics, iteration, iteration_metrics, any_modified, opIndex, new_state,
                 modified, applications, stability, initial_view>>

\* operator lists with an operator that lacks apply, alone, last and first, and a
\* list without one
ContractOperatorLists ==
  LET N == NormalizeEvidenceOperator
      B == ImprovementOperator("unimplemented")
  IN {<<B>>, <<N, B>>, <<B, N>>, <<N>>}

ContractInputs ==
  {[claims |-> [i \in 1..Len(cl) |-> Claim(i, cl[i].evidence, cl[i].confidence)],
    relationships |-> InitialRelationships, has_merges |-> FALSE,
    has_weak_removals |-> FALSE,
    operators |-> ops, max_iterations |-> mi] :
     cl \in ClaimLists, ops \in ContractOperatorLists, mi \in 0..MaxIterations}

\* the operators and the engine are constructed (neither constructor looks at
\* apply) and refine is called
ContractInit == \E inp \in ContractInputs : InitFrom(inp)

ContractNext == Next \/ ApplyRaises

ContractSpec == ContractInit /\ [][ContractNext]_vars

\* ------------------------------------ the model-backed merge ----------
\* the engines with the model-backed operator run for at most one iteration: every
\* answer of the service is a branch of each application
LLMMaxIterations == 1

LLMOperatorLists == {<<LLMMergeDuplicateClaimsOperator>>}

LLMInputs ==
  {[claims |-> [i \in 1..Len(cl) |-> Claim(i, cl[i].evidence, cl[i].confidence)],
    relationships |-> InitialRelationships, has_merges |-> md,
    has_weak_removals |-> FALSE,
    operators |-> ops, max_iterations |-> mi] :
     cl \in ClaimLists, md \in BOOLEAN, ops \in LLMOperatorLists,
     mi \in 0..LLMMaxIterations}

LLMInit == \E inp \in LLMInputs : InitFrom(inp)

LLMSpec == LLMInit /\ [][Next]_vars

\* ------------------------ the pool [Normalize, Merge(t), RemoveWeak(m)] ---
\* the pool with the thresholds of the demo and with the strictest ones
PoolOperatorLists ==
  {<<NormalizeEvidenceOperator, MergeDuplicateClaimsOperator(t),
     RemoveWeakClaimsOperator(m)>> :
     t \in {DemoThreshold, FullOverlap}, m \in {DemoMinConfidence, FullConfidence}}

\* every generated state and the sample state, with a budget of two iterations
\* more than the state has claims
PoolInputs ==
  {[claims |-> [i \in 1..Len(cl) |-> Claim(i, cl[i].evidence, cl[i].confidence)],
    relationships |-> InitialRelationships, has_merges |-> md.has_merges,
    has_weak_removals |-> md.has_weak_removals,
    operators |-> ops, max_iterations |-> Len(cl) + 2] :
     cl \in ClaimLists, md \in MetadataChoices, ops \in PoolOperatorLists}
  \cup {[claims |-> SampleClaims, relationships |-> SampleRelationships,
         has_merges |-> FALSE, has_weak_removals |-> FALSE,
         operators |-> ops, max_iterations |-> Len(SampleClaims) + 2] :
          ops \in PoolOperatorLists}

PoolInit == \E inp \in PoolInputs : InitFrom(inp)

PoolSpec == PoolInit /\ [][Next]_vars

\* -------------------------------------- the analyzer on any record -----
\* the snapshots a record can hold: any starting claim count, with or without a
\* modification entry
Snapshots ==
  [num_claims : 0..MaxClaims,
   modifications : {<<>>, <<[operator |-> "merge_duplicates", claims_before |-> 1,
                             claims_after |-> 0]>>}]

\* the records handed to analyze_stability: up to MaxIterations snapshots, numbered
\* from 0, with convergence_iteration None or any of the iteration numbers
Records ==
  {[iterations |-> [j \in 1..Len(its) |->
                      [iteration |-> j - 1, num_claims |-> its[j].num_claims,
                       modifications |-> its[j].modifications]],
    convergence_iteration |-> conv,
    total_applications |-> 0,
    operators_applied |-> <<>>,
    final_state |-> KnowledgeState(<<>>, <<>>, [merges |-> Absent, weak_removals |-> Absent])] :
     its \in UNION {[1..n -> Snapshots] : n \in 0..MaxIterations},
     conv \in {None} \cup (0..(MaxIterations - 1))}

\* a caller holding a record, about to call analyze_stability on it
AnalyzerInit ==
  /\ metrics \in Records
  /\ operators = <<>>
  /\ max_iterations = MaxIterations
  /\ claimHeap = <<>>
  /\ listHeap = <<>>
  /\ initial_state = metrics.final_state
  /\ initial_view = ViewOf(initial_state, claimHeap, listHeap)
  /\ state = initial_state
  /\ new_state = initial_state
  /\ iteration = None
  /\ iteration_metrics = <<>>
  /\ any_modified = FALSE
  /\ opIndex = 0
  /\ old_claim_count = 0
  /\ modified = FALSE
  /\ applications = <<>>
  /\ stability = <<>>
  /\ pc = "returned"

AnalyzerSpec == AnalyzerInit /\ [][AnalyzeStability]_vars

\* ----------------------------------------------------------- claims -----
\* an ApplyOperator step: the engine has just run one operator
OperatorStep == pc = "operators" /\ opIndex' = opIndex + 1

\* C1: the engine never replaces its current state by a candidate with fewer
\* claims than the state the operator was applied to, unless the candidate's
\* metadata has the key 'merges'
C1_NoLossWithoutMergesKey ==
  [][Len(state'.claims) < Len(state.claims) => state'.metadata.merges # Absent]_vars

\* a smaller candidate (carrying 'merges') has just been adopted
C1_Witness ==
  /\ pc = "operators"
  /\ opIndex > 1
  /\ state = new_state
  /\ Len(state.claims) < old_claim_count
  /\ state.metadata.merges # Absent

\* C2: every application that reduces the claim count without itself appending
\* to metadata['merges'] is rejected (RemoveWeak every time it removes claims)
C2_ReductionWithoutMergeRejected ==
  [][(/\ OperatorStep
      /\ Len(new_state'.claims) < Len(state.claims)
      /\ MetaListOf(new_state'.metadata.merges, listHeap')
           = MetaListOf(state.metadata.merges, listHeap))
     => state' = state]_vars

\* C3: refine stops at the first iteration without an accepted modification:
\* that iteration is convergence_iteration, its snapshot is the last one and the
\* only one with no modifications, and no operator runs after it
C3_StopsAtFirstQuietIteration ==
  LET its == metrics.iterations
      conv == metrics.convergence_iteration
  IN /\ \A j \in 1..Len(its) : (its[j].modifications = <<>>) <=> (conv = j - 1)
     /\ pc = "operators" => (any_modified <=> iteration_metrics.modifications # <<>>)
     /\ conv # None =>
          /\ Len(its) = conv + 1
          /\ pc \in {"finish", "returned", "analyzed"}
          /\ \A k \in 1..Len(operators) : applications[k] = conv + 1

\* a run that converged after at least one iteration with modifications
C3_Witness ==
  /\ pc = "returned"
  /\ metrics.convergence_iteration # None
  /\ metrics.convergence_iteration >= 1

\* C4 (as stated): with idempotent operators refine always ends converged, and
\* every operator applied once more to the final state reports modified = false
C4_AlwaysConvergesToFixedPoint ==
  pc = "returned" =>
    /\ metrics.convergence_iteration # None
    /\ \A k \in 1..Len(operators) :
         \A r \in Apply(operators[k], metrics.final_state, claimHeap, listHeap) :
           ~r.modified

\* C4 (amended): refine ends after at most max_iterations iterations, converged
\* at its last recorded iteration or with convergence_iteration None once the
\* budget is used up; when converged, every operator applied once more to the
\* final state reports modified = false or has its candidate rejected
C4_ConvergedIsFixedPointUpToRejection ==
  LET its == metrics.iterations
      conv == metrics.convergence_iteration
  IN /\ Len(its) <= max_iterations
     /\ pc = "returned" =>
          /\ conv = None => Len(its) = max_iterations
          /\ conv # None =>
               /\ conv = Len(its) - 1
               /\ conv < max_iterations
               /\ \A k \in 1..Len(operators) :
                    \A r \in Apply(operators[k], metrics.final_state, claimHeap, listHeap) :
                      ~r.modified \/ ~verify_invariants(metrics.final_state, r.state)

\* a converged run, after an iteration with modifications, whose final state one
\* operator would still change (its candidate being rejected)
C4_Witness ==
  /\ pc = "returned"
  /\ metrics.convergence_iteration # None
  /\ metrics.convergence_iteration >= 1
  /\ \E k \in 1..Len(operators) :
       \E r \in Apply(operators[k], metrics.final_state, claimHeap, listHeap) : r.modified

\* C5: a candidate that verify_invariants rejects is discarded: the current
\* state, the modification list, the counters and any_modified stay as they
\* were, and the loop goes on to the next operator of the same iteration
C5_RejectedCandidateDiscarded ==
  [][(OperatorStep /\ ~verify_invariants(state, new_state'))
     => /\ state' = state
        /\ iteration_metrics' = iteration_metrics
        /\ metrics' = metrics
        /\ any_modified' = any_modified
        /\ iteration' = iteration
        /\ pc' = "operators"]_vars

\* a candidate reported as modified has just been rejected and another operator
\* of the same iteration is still to run
C5_Witness ==
  /\ pc = "operators"
  /\ opIndex > 1
  /\ opIndex <= Len(operators)
  /\ modified
  /\ state # new_state
  /\ ~verify_invariants(state, new_state)
  /\ ~any_modified

\* the modification entries recorded so far under an operator name
EntriesOf(name) ==
  LET snapshots == IF pc = "operators"
                   THEN Append(metrics.iterations, iteration_metrics)
                   ELSE metrics.iterations
  IN SumSeq([j \in 1..Len(snapshots) |->
               Cardinality({e \in 1..Len(snapshots[j].modifications) :
                              snapshots[j].modifications[e].operator = name})])

OperatorNames == {operators[k].name : k \in 1..Len(operators)}

\* C6: the per-operator count equals the number of modification entries of that
\* operator, every entry comes from exactly one accepted application that
\* reported modified (with the claim counts before and after), and
\* total_applications is the sum of the counts and equals total_modifications
C6_CountsMatchEntries ==
  /\ [](/\ DOMAIN metrics.operators_applied \subseteq OperatorNames
        /\ \A name \in OperatorNames :
             EntriesOf(name) = IF name \in DOMAIN metrics.operators_applied
                               THEN metrics.operators_applied[name] ELSE 0
        /\ pc \in {"returned", "analyzed"} =>
             metrics.total_applications =
               SumSeq([k \in 1..Len(operators) |-> EntriesOf(operators[k].name)])
        /\ pc = "analyzed" => stability.total_modifications = metrics.total_applications)
  /\ [][IF OperatorStep
        THEN iteration_metrics'.modifications =
               IF verify_invariants(state, new_state') /\ modified'
               THEN Append(iteration_metrics.modifications,
                           [operator |-> operators[opIndex].name,
                            claims_before |-> Len(state.claims),
                            claims_after |-> Len(state'.claims)])
               ELSE iteration_metrics.modifications
        ELSE pc' = "operators" \/ iteration_metrics' = iteration_metrics]_vars

\* a returned record in which one operator was counted more than once
C6_Witness ==
  /\ pc = "analyzed"
  /\ \E name \in DOMAIN metrics.operators_applied : metrics.operators_applied[name] >= 2
  /\ Cardinality(DOMAIN metrics.operators_applied) >= 2

\* the number of steps refine and the analyzer can still take
StepsLeft ==
  CASE pc = "analyzed" -> 0
    [] pc = "returned" -> 1
    [] pc = "finish" -> 2
    [] pc = "loop" -> 3 + (max_iterations - NextIteration) * (Len(operators) + 2)
    [] pc = "operators" -> 3 + (max_iterations - iteration - 1) * (Len(operators) + 2)
                             + (Len(operators) + 2 - opIndex)

\* C7: refine ends after at most max_iterations iterations (every step uses up
\* one of a bounded number of steps, and an operator that is due always yields a
\* candidate, so a run that has not returned can take a step), and a run in which every iteration had an accepted modification
\* records exactly the snapshots 0..max_iterations-1 and leaves
\* convergence_iteration None
C7_EndsAtIterationCap ==
  /\ [](/\ Len(metrics.iterations) <= max_iterations
        /\ StepsLeft >= 0
        /\ pc \in {"loop", "operators", "finish", "returned", "analyzed"}
        /\ pc = "operators" =>
             /\ opIndex \in 1..(Len(operators) + 1)
             /\ opIndex <= Len(operators) =>
                  Apply(operators[opIndex], state, claimHeap, listHeap) # {}
        /\ (/\ pc \in {"returned", "analyzed"}
            /\ \A j \in 1..Len(metrics.iterations) :
                 metrics.iterations[j].modifications # <<>>)
           => /\ Len(metrics.iterations) = max_iterations
              /\ \A j \in 1..max_iterations : metrics.iterations[j].iteration = j - 1
              /\ metrics.convergence_iteration = None)
  /\ [][StepsLeft' < StepsLeft]_vars

\* a run of at least two iterations that used up its budget without converging
C7_Witness ==
  /\ pc = "returned"
  /\ max_iterations >= 2
  /\ Len(metrics.iterations) = max_iterations
  /\ metrics.convergence_iteration = None

\* C8: with max_iterations = 0 no operator is applied, the record is empty with
\* the initial state, untouched, as final state, and the analyzer reports
\* monotonic, not converged and zero everywhere
C8_ZeroIterations ==
  (max_iterations = 0 /\ pc \in {"returned", "analyzed"}) =>
    /\ metrics.iterations = <<>>
    /\ metrics.convergence_iteration = None
    /\ metrics.total_applications = 0
    /\ metrics.final_state = initial_state
    /\ ViewOf(metrics.final_state, claimHeap, listHeap) = initial_view
    /\ \A k \in 1..Len(operators) : applications[k] = 0
    /\ pc = "analyzed" =>
         stability = [is_monotonic |-> TRUE, converged |-> FALSE, convergence_speed |-> 0,
                      total_modifications |-> 0, claim_reduction |-> 0,
                      final_claim_count |-> 0]

\* a zero-iteration run on a state that has claims, analyzed
C8_Witness ==
  /\ max_iterations = 0
  /\ pc = "analyzed"
  /\ Len(initial_state.claims) > 0

\* C9: in every executed iteration each operator is applied exactly once, in
\* list order, to the engine's current state, which is the candidate of the
\* latest accepted application (modified or not) or else the starting state
C9_EachOperatorOnceInOrder ==
  /\ [](\A k \in 1..Len(operators) :
          applications[k] = IF pc = "operators"
                            THEN iteration + (IF k < opIndex THEN 1 ELSE 0)
                            ELSE Len(metrics.iterations))
  /\ [][IF OperatorStep
        THEN /\ \E r \in Apply(operators[opIndex], state, claimHeap, listHeap) :
                  /\ r.state = new_state'
                  /\ r.modified = modified'
                  /\ r.claimHeap = claimHeap'
                  /\ r.listHeap = listHeap'
             /\ state' = IF verify_invariants(state, new_state') THEN new_state' ELSE state
             /\ applications' = [applications EXCEPT ![opIndex] = @ + 1]
        ELSE state' = state /\ applications' = applications]_vars

\* the second operator of the first iteration is about to receive the fresh
\* state object that the first one returned with modified = false
C9_Witness ==
  /\ pc = "operators"
  /\ iteration = 0
  /\ opIndex = 2
  /\ opIndex <= Len(operators)
  /\ ~modified
  /\ state = new_state
  /\ state # initial_state

\* the run of examples/demo.py
DemoRun ==
  /\ initial_view.claims = SampleClaims
  /\ operators = DemoOperators
  /\ max_iterations = DemoMaxIterations

\* C10: the demo run converges with exactly the claims c1, c3, c5 (c2 merged
\* into c1, c4 removed by RemoveWeak), one merges record, and is_monotonic true
C10_DemoResult ==
  (DemoRun /\ pc \in {"returned", "analyzed"}) =>
    LET final == ViewOf(metrics.final_state, claimHeap, listHeap)
    IN /\ metrics.convergence_iteration # None
       /\ [i \in 1..Len(final.claims) |-> final.claims[i].id] = <<1, 3, 5>>
       /\ Len(final.merges) = 1
       /\ final.merges[1].kept = 1
       /\ final.merges[1].removed = 2
       /\ final.weak_removals = <<4>>
       /\ pc = "analyzed" => stability.is_monotonic /\ stability.final_claim_count = 3

\* the demo run has returned and been analyzed
C10_Witness == DemoRun /\ pc = "analyzed"

\* ------------------------------------------- refine as a function -----
RECURSIVE RunOperators(_, _, _)
\* `for operator in self.operators` from the k-th operator on: the outcomes
\* (current state, heaps, any_modified) the rest of the iteration can have
RunOperators(ops, k, cur) ==
  IF k > Len(ops) THEN {cur}
  ELSE UNION {RunOperators(ops, k + 1,
                IF ~verify_invariants(cur.state, r.state)
                THEN [cur EXCEPT !.claimHeap = r.claimHeap, !.listHeap = r.listHeap]
                ELSE [state |-> r.state, claimHeap |-> r.claimHeap,
                      listHeap |-> r.listHeap,
                      any_modified |-> cur.any_modified \/ r.modified]) :
                r \in Apply(ops[k], cur.state, cur.claimHeap, cur.listHeap)}

RECURSIVE RefineFinalStates(_, _, _)
\* `for iteration in range(self.max_iterations)` with `left` iterations to go:
\* the states refine can end with
RefineFinalStates(ops, left, cur) ==
  IF left = 0 THEN {cur}
  ELSE UNION {IF ~o.any_modified THEN {o} ELSE RefineFinalStates(ops, left - 1, o) :
                o \in RunOperators(ops, 1, [cur EXCEPT !.any_modified = FALSE])}

\* the caller's state built again from what it held before the call
FreshState(view) ==
  LET lists == (IF view.has_merges THEN <<view.merges>> ELSE <<>>)
                 \o (IF view.has_weak_removals THEN <<view.weak_removals>> ELSE <<>>)
  IN [state |-> KnowledgeState([i \in 1..Len(view.claims) |-> i], view.relationships,
                               [merges |-> IF view.has_merges THEN 1 ELSE Absent,
                                weak_removals |-> IF view.has_weak_removals
                                                  THEN Len(lists) ELSE Absent]),
      claimHeap |-> view.claims,
      listHeap |-> lists,
      any_modified |-> FALSE]

\* the final claim counts refine(view) can return with the operator list ops
FinalClaimCounts(ops, mi, view) ==
  {Len(o.state.claims) : o \in RefineFinalStates(ops, mi, FreshState(view))}

\* some evidence list of the claims has a duplicate or is not sorted
Untidy(claims) ==
  \E i \in 1..Len(claims) : claims[i].evidence # SortedList(Range(claims[i].evidence))

StepOf(name) == OperatorStep /\ opIndex <= Len(operators) /\ operators[opIndex].name = name

\* the list has no duplicates and is in increasing (lexicographic) order
StrictlySorted(s) == \A i \in 1..(Len(s) - 1) : s[i] < s[i + 1]

\* C12: Normalize returns, for every claim, the duplicate-free sorted list of the
\* input claim's evidence, with the other claim fields, the ids, the relationships
\* and the metadata as in the input; modified is true iff some evidence list
\* differs from its input list; Normalize applied to its own output reports false
C12_NormalizeResult ==
  [][StepOf("normalize_evidence") =>
       LET old == ClaimsOf(state, claimHeap)
           new == ClaimsOf(new_state', claimHeap')
       IN /\ Len(new) = Len(old)
          /\ \A i \in 1..Len(old) :
               /\ StrictlySorted(new[i].evidence)
               /\ Range(new[i].evidence) = Range(old[i].evidence)
               /\ new[i].id = old[i].id
               /\ new[i].text = old[i].text
               /\ new[i].section = old[i].section
               /\ new[i].confidence = old[i].confidence
          /\ [ViewOf(new_state', claimHeap', listHeap') EXCEPT !.claims = <<>>]
               = [ViewOf(state, claimHeap, listHeap) EXCEPT !.claims = <<>>]
          /\ modified' <=> \E i \in 1..Len(old) : new[i].evidence # old[i].evidence
          /\ \A r \in NormalizeApply(new_state', claimHeap', listHeap') : ~r.modified]_vars

\* Normalize has just reported a modification on lists of which none lost an
\* entry: some list was only out of order
C12_Witness ==
  /\ pc = "operators"
  /\ opIndex > 1
  /\ operators[opIndex - 1].name = "normalize_evidence"
  /\ modified
  /\ state = new_state
  /\ iteration = 0
  /\ \A i \in 1..Len(state.claims) :
       Len(claimHeap[state.claims[i]].evidence) = Len(initial_view.claims[i].evidence)

\* C13: after RemoveWeak or MergeDuplicates the returned relationships have no key
\* that is the id of a claim removed by the application, every other entry (key
\* and list, also a list that mentions a removed id) is as before, and a removed
\* id that is no key of relationships raises no error (a candidate is returned)
C13_RelationshipsPruned ==
  /\ [](\A k \in 1..Len(operators) :
          (pc = "operators" /\ operators[k].name \in {"remove_weak", "merge_duplicates"})
            => Apply(operators[k], state, claimHeap, listHeap) # {})
  /\ [][(StepOf("remove_weak") \/ StepOf("merge_duplicates")) =>
          LET removed == IdsOf(state, claimHeap) \ IdsOf(new_state', claimHeap')
          IN /\ DOMAIN new_state'.relationships = (DOMAIN state.relationships) \ removed
             /\ \A k \in DOMAIN new_state'.relationships :
                  new_state'.relationships[k] = state.relationships[k]]_vars

\* an application has just removed two claims, one whose id was a key of
\* relationships and one whose id was not
C13_Witness ==
  /\ pc = "operators"
  /\ opIndex > 1
  /\ operators[opIndex - 1].name \in {"remove_weak", "merge_duplicates"}
  /\ modified
  /\ \E a, b \in IdsOf(initial_state, claimHeap) \ IdsOf(new_state, claimHeap) :
       /\ a \in DOMAIN initial_state.relationships
       /\ b \notin DOMAIN initial_state.relationships
       /\ a \notin DOMAIN new_state.relationships

\* an application has just removed a claim and left an entry whose list still
\* mentions the removed id
C13_WitnessMention ==
  /\ pc = "operators"
  /\ opIndex > 1
  /\ operators[opIndex - 1].name \in {"remove_weak", "merge_duplicates"}
  /\ modified
  /\ \E k \in DOMAIN new_state.relationships :
       Range(new_state.relationships[k]) \ IdsOf(new_state, claimHeap) # {}

\* C14: the analyzer returns convergence_speed = convergence_iteration whenever
\* that is set, also when the run converged at iteration 0, and the number of
\* recorded iterations otherwise; converged is true iff convergence_iteration is
\* set
C14_SpeedIsConvergenceIteration ==
  pc = "analyzed" =>
    /\ stability.converged <=> metrics.convergence_iteration # None
    /\ stability.convergence_speed =
         IF metrics.convergence_iteration # None
         THEN metrics.convergence_iteration
         ELSE Len(metrics.iterations)

\* C15: for every record the analyzer returns is_monotonic = true iff every
\* snapshot starts with at most as many claims as the snapshot before it (true for
\* zero or one snapshot), claim_reduction = the first snapshot's starting count
\* minus the last one's, final_claim_count = the last snapshot's starting count
\* (both 0 without snapshots), and it leaves the record as it was
C15_MonotonicReductionFinalCount ==
  /\ [](pc = "analyzed" =>
          LET its == metrics.iterations
              n == Len(its)
          IN /\ stability.is_monotonic <=>
                  ~(\E j \in 2..n : its[j].num_claims > its[j - 1].num_claims)
             /\ n <= 1 => stability.is_monotonic
             /\ stability.claim_reduction =
                  IF n = 0 THEN 0 ELSE its[1].num_claims - its[n].num_claims
             /\ stability.final_claim_count = IF n = 0 THEN 0 ELSE its[n].num_claims)
  /\ [][pc = "returned" => metrics' = metrics]_vars

\* an analyzed record whose claim count went up
C15_Witness ==
  /\ pc = "analyzed"
  /\ ~stability.is_monotonic
  /\ Len(metrics.iterations) >= 2
  /\ stability.claim_reduction < 0
  /\ stability.final_claim_count > 0

\* C16: whenever a rule-based operator reports modified = false or its candidate
\* is rejected by verify_invariants, everything reachable from the input state
\* (the claims' fields, the relationships, the metadata keys and the lists under
\* them) has the same content after the call as before it
C16_InputUntouchedWhenUnmodifiedOrRejected ==
  [][(/\ OperatorStep
      /\ operators[opIndex].name \in {"normalize_evidence", "merge_duplicates", "remove_weak"}
      /\ ~modified' \/ ~verify_invariants(state, new_state'))
     => ViewOf(state, claimHeap', listHeap') = ViewOf(state, claimHeap, listHeap)]_vars

\* the position of the claim with the given id in a list of claims
PosOf(id, claims) == CHOOSE i \in 1..Len(claims) : claims[i].id = id

\* the evidence set claim i of the input holds when the pass compares it with
\* claim j: its own and that of the claims before j already merged into it
EvidenceAt(i, j, claims, records) ==
  Range(claims[i].evidence)
    \cup UNION {Range(claims[PosOf(records[k].removed, claims)].evidence) :
                 k \in {x \in 1..Len(records) :
                          /\ records[x].kept = claims[i].id
                          /\ PosOf(records[x].removed, claims) < j}}

\* C17: one MergeDuplicates pass takes the pairs in the claim order of the input;
\* it appends one {kept, removed, similarity} record for each pair it merges, a
\* pair of non-empty evidence sets with overlap / min size >= threshold of which
\* neither claim is already removed; a surviving pair was below the threshold or
\* had an empty set; the kept claim ends with the union of the evidence and the
\* maximum of the confidences; the removed claims are exactly the 'removed' ids of
\* the new records, each once and never 'kept' in a later record; the claim count
\* drops by the number of new records; modified is true iff a record was appended
C17_MergePass ==
  [][StepOf("merge_duplicates") =>
       LET t == operators[opIndex].similarity_threshold
           old == ClaimsOf(state, claimHeap)
           new == ClaimsOf(new_state', claimHeap')
           oldM == MetaListOf(state.metadata.merges, listHeap)
           newM == MetaListOf(new_state'.metadata.merges, listHeap')
           recs == SubSeq(newM, Len(oldM) + 1, Len(newM))
           kept(k) == PosOf(recs[k].kept, old)
           gone(k) == PosOf(recs[k].removed, old)
           removed == {recs[k].removed : k \in 1..Len(recs)}
           e1(i, j) == EvidenceAt(i, j, old, recs)
           e2(j) == Range(old[j].evidence)
           similar(i, j) ==
             /\ e1(i, j) # {}
             /\ e2(j) # {}
             /\ Cardinality(e1(i, j) \cap e2(j)) * t[2]
                  >= t[1] * Min2(Cardinality(e1(i, j)), Cardinality(e2(j)))
       IN /\ Len(newM) >= Len(oldM)
          /\ SubSeq(newM, 1, Len(oldM)) = oldM
          /\ \A k \in 1..Len(recs) :
               /\ recs[k].kept \in IdsOf(state, claimHeap)
               /\ recs[k].removed \in IdsOf(state, claimHeap)
               /\ kept(k) < gone(k)
               /\ similar(kept(k), gone(k))
               /\ recs[k].similarity =
                    <<Cardinality(e1(kept(k), gone(k)) \cap e2(gone(k))),
                      Min2(Cardinality(e1(kept(k), gone(k))), Cardinality(e2(gone(k))))>>
               /\ \A l \in (k + 1)..Len(recs) :
                    /\ recs[l].removed # recs[k].removed
                    /\ recs[l].kept # recs[k].removed
                    /\ \/ kept(k) < kept(l)
                       \/ kept(k) = kept(l) /\ gone(k) < gone(l)
          /\ IdsOf(state, claimHeap) \ IdsOf(new_state', claimHeap') = removed
          /\ Len(new) = Len(old) - Len(recs)
          /\ modified' <=> recs # <<>>
          /\ \A i, j \in 1..Len(old) :
               (i < j /\ old[i].id \notin removed /\ old[j].id \notin removed)
                 => ~similar(i, j)
          /\ \A n \in 1..Len(new) :
               LET i == PosOf(new[n].id, old)
                   into == {gone(k) : k \in {x \in 1..Len(recs) : kept(x) = i}}
               IN /\ \A m \in 1..Len(new) : m < n => PosOf(new[m].id, old) < i
                  /\ Range(new[n].evidence)
                       = Range(old[i].evidence)
                           \cup UNION {Range(old[r].evidence) : r \in into}
                  /\ \A r \in into \cup {i} : new[n].confidence >= old[r].confidence
                  /\ \E r \in into \cup {i} : new[n].confidence = old[r].confidence]_vars

\* a pass has just merged a claim into one of lower confidence and recorded it
C17_Witness ==
  /\ pc = "operators"
  /\ opIndex > 1
  /\ operators[opIndex - 1].name = "merge_duplicates"
  /\ modified
  /\ state = new_state
  /\ iteration = 0
  /\ LET merges == MetaListOf(state.metadata.merges, listHeap)
     IN /\ merges # <<>>
        /\ \E n \in 1..Len(state.claims) :
             /\ claimHeap[state.claims[n]].id = merges[Len(merges)].kept
             /\ claimHeap[state.claims[n]].confidence
                  > initial_view.claims[PosOf(merges[Len(merges)].kept, initial_view.claims)].confidence

\* C18: RemoveWeak(min_confidence) returns exactly the input claims with
\* confidence >= min_confidence (one equal to it is kept), appends exactly the
\* ids of the removed claims to metadata['weak_removals'] of the returned state,
\* reports modified = true iff a claim was removed, and creates no
\* 'weak_removals' key when nothing is removed
C18_RemoveWeakResult ==
  [][StepOf("remove_weak") =>
       LET m == operators[opIndex].min_confidence
           old == ClaimsOf(state, claimHeap)
           new == ClaimsOf(new_state', claimHeap')
           Strong(c) == c.confidence >= m
           Weak(c) == c.confidence < m
           weak == SelectSeq(old, Weak)
           removed_ids == [i \in 1..Len(weak) |-> weak[i].id]
       IN /\ new = SelectSeq(old, Strong)
          /\ MetaListOf(new_state'.metadata.weak_removals, listHeap')
               = MetaListOf(state.metadata.weak_removals, listHeap) \o removed_ids
          /\ modified' <=> removed_ids # <<>>
          /\ removed_ids # <<>> => new_state'.metadata.weak_removals # Absent
          /\ removed_ids = <<>> =>
               new_state'.metadata.weak_removals = state.metadata.weak_removals
          /\ new_state'.metadata.merges = state.metadata.merges]_vars

\* RemoveWeak has just removed claims and kept one whose confidence equals
\* min_confidence
C18_Witness ==
  /\ pc = "operators"
  /\ opIndex > 1
  /\ operators[opIndex - 1].name = "remove_weak"
  /\ modified
  /\ MetaListOf(new_state.metadata.weak_removals, listHeap) # <<>>
  /\ \E n \in 1..Len(new_state.claims) :
       claimHeap[new_state.claims[n]].confidence = operators[opIndex - 1].min_confidence

\* RemoveWeak has just found nothing to remove in a state without the key
\* 'weak_removals'
C18_WitnessNothingRemoved ==
  /\ pc = "operators"
  /\ opIndex > 1
  /\ operators[opIndex - 1].name = "remove_weak"
  /\ ~modified
  /\ state = new_state
  /\ Len(state.claims) > 0
  /\ state.metadata.weak_removals = Absent

\* the position of the first operator of the list that lacks apply (0: none)
FirstUnimplemented ==
  IF \E k \in 1..Len(operators) : Unimplemented(operators[k])
  THEN CHOOSE k \in 1..Len(operators) :
         /\ Unimplemented(operators[k])
         /\ \A l \in 1..(k - 1) : ~Unimplemented(operators[l])
  ELSE 0

\* C19 (as stated): an operator that lacks apply is rejected when it is
\* constructed or registered, so the defect is never first met while refine runs
C19_UnimplementedNeverMetInRefine ==
  FirstUnimplemented # 0 => pc \notin {"operators", "raised"}

\* C19 (amended): an operator that lacks apply is accepted by its constructor and
\* by the engine's; refine with max_iterations >= 1 fails at the first application
\* of that operator, in iteration 0, after the operators before it were applied
\* once, and ends there without a snapshot or a record; with max_iterations = 0
\* refine returns normally
C19_UnimplementedRaisesAtFirstApplication ==
  /\ [](FirstUnimplemented # 0 =>
          /\ pc \in {"loop", "operators", "raised"} => metrics.iterations = <<>>
          /\ pc = "operators" => iteration = 0 /\ opIndex <= FirstUnimplemented
          /\ pc = "raised" =>
               /\ max_iterations >= 1
               /\ iteration = 0
               /\ opIndex = FirstUnimplemented
               /\ \A k \in 1..Len(operators) :
                    applications[k] = IF k < FirstUnimplemented THEN 1 ELSE 0
               /\ "final_state" \notin DOMAIN metrics
          /\ pc \in {"finish", "returned", "analyzed"} => max_iterations = 0
          /\ (pc = "operators" /\ opIndex = FirstUnimplemented) => ENABLED ApplyRaises)
  /\ [][pc # "raised"]_vars

\* refine has failed at its second operator, after the first one was applied
C19_Witness ==
  /\ pc = "raised"
  /\ opIndex = 2
  /\ applications[1] = 1
  /\ state # initial_state

\* the instruction names an unknown claim id as keep id, or only unknown ids to
\* remove
NamesUnknown(merge, st, ch) ==
  \/ merge.keep \notin IdsOf(st, ch)
  \/ \A i \in 1..Len(merge.remove) : merge.remove[i] \notin IdsOf(st, ch)

\* C20: in the model-backed merge operator an instruction whose keep id is not in
\* the state, or whose remove ids are all not in the state, is skipped: it removes
\* no claim, changes no evidence, appends no merges record and does not make
\* modified true, whatever instructions precede it in the response
C20_UnknownIdInstructionSkipped ==
  (/\ pc = "operators"
   /\ opIndex <= Len(operators)
   /\ operators[opIndex].name = "llm_merge_duplicates"
   /\ Len(state.claims) >= 2)
  => \A response \in Responses :
       \A e \in 1..Len(response.merges) :
         NamesUnknown(response.merges[e], state, claimHeap) =>
           LLMMergeLoop(LLMMergeStart(state, claimHeap, listHeap), state,
                        response.merges, e)
             = LLMMergeLoop(LLMMergeStart(state, claimHeap, listHeap), state,
                            response.merges, e - 1)

\* a run of [RemoveWeak(m)] alone, for at least one iteration, on a state without
\* the key 'merges' that has a claim below m
RemoveWeakAloneRun ==
  /\ Len(operators) = 1
  /\ operators[1].name = "remove_weak"
  /\ max_iterations >= 1
  /\ ~initial_view.has_merges
  /\ \E i \in 1..Len(initial_view.claims) :
       initial_view.claims[i].confidence < operators[1].min_confidence

\* C21: when the current state's metadata has no 'merges' key and RemoveWeak
\* removes a claim, its candidate is rejected; so refine with [RemoveWeak] alone
\* on such a state records no modification, converges at iteration 0 and returns
\* a final state that still holds every claim below min_confidence
C21_RemoveWeakRejectedWithoutMerges ==
  /\ [][(/\ StepOf("remove_weak")
          /\ state.metadata.merges = Absent
          /\ Len(new_state'.claims) < Len(state.claims))
         => /\ ~verify_invariants(state, new_state')
            /\ state' = state
            /\ iteration_metrics' = iteration_metrics
            /\ any_modified' = any_modified]_vars
  /\ []((RemoveWeakAloneRun /\ pc \in {"returned", "analyzed"}) =>
          /\ metrics.convergence_iteration = 0
          /\ Len(metrics.iterations) = 1
          /\ metrics.iterations[1].modifications = <<>>
          /\ metrics.total_applications = 0
          /\ metrics.final_state = initial_state
          /\ \A i \in 1..Len(initial_view.claims) :
               initial_view.claims[i] \in Range(ClaimsOf(metrics.final_state, claimHeap)))

\* such a run has returned after RemoveWeak's candidate, with fewer claims, was
\* turned down
C21_Witness ==
  /\ RemoveWeakAloneRun
  /\ pc = "returned"
  /\ modified
  /\ Len(new_state.claims) < Len(metrics.final_state.claims)

\* C22: refine is pure with respect to its input: after it returns, the
\* initial_state object of the caller has the same claims (ids, evidence,
\* confidence), relationships and metadata contents as before the call
C22_InitialStateUntouched ==
  pc \in {"returned", "analyzed"} =>
    ViewOf(initial_state, claimHeap, listHeap) = initial_view

\* the claim count a snapshot's entries end with
EndCount(snapshot) ==
  IF snapshot.modifications = <<>> THEN snapshot.num_claims
  ELSE snapshot.modifications[Len(snapshot.modifications)].claims_after

\* C23: the snapshots are numbered 0, 1, ..., k-1 with k <= max_iterations;
\* snapshot 0 starts with the initial state's claim count; snapshot j+1 starts
\* with the claim count of the engine's state at the end of iteration j, which is
\* claims_after of the last entry of iteration j (or its starting count if it has
\* none); each entry's claims_before is the claims_after of the entry before it
\* (the starting count for the first entry)
C23_SnapshotCounts ==
  LET its == metrics.iterations
      all == IF pc = "operators" THEN Append(its, iteration_metrics) ELSE its
  IN /\ Len(its) <= max_iterations
     /\ \A j \in 1..Len(all) :
          /\ all[j].iteration = j - 1
          /\ \A e \in 1..Len(all[j].modifications) :
               all[j].modifications[e].claims_before =
                 IF e = 1 THEN all[j].num_claims
                 ELSE all[j].modifications[e - 1].claims_after
     /\ Len(all) >= 1 => all[1].num_claims = Len(initial_state.claims)
     /\ \A j \in 1..(Len(all) - 1) : all[j + 1].num_claims = EndCount(all[j])
     /\ Len(all) >= 1 => Len(state.claims) = EndCount(all[Len(all)])
     /\ Len(all) = 0 => Len(state.claims) = Len(initial_state.claims)

\* a returned record of several snapshots, the first with two entries that each
\* removed a claim
C23_Witness ==
  /\ pc = "returned"
  /\ Len(metrics.iterations) >= 2
  /\ Len(metrics.iterations[1].modifications) >= 2
  /\ metrics.iterations[1].modifications[1].claims_after
       < metrics.iterations[1].modifications[1].claims_before
  /\ metrics.iterations[1].modifications[2].claims_after
       < metrics.iterations[1].modifications[2].claims_before

\* a run of [Normalize, Merge(t), RemoveWeak(m)] whose budget is at least the
\* number of claims of the initial state plus two
PoolRun ==
  /\ Len(operators) = 3
  /\ operators[1].name = "normalize_evidence"
  /\ operators[2].name = "merge_duplicates"
  /\ operators[3].name = "remove_weak"
  /\ max_iterations >= Len(initial_state.claims) + 2

\* C24: with [Normalize, Merge(t), RemoveWeak(m)] on a state of n claims the
\* claim count of the engine's state never increases, and with
\* max_iterations >= n + 2 refine ends converged, at an iteration <= n + 1
C24_PoolConverges ==
  /\ []((PoolRun /\ pc \in {"returned", "analyzed"}) =>
          /\ metrics.convergence_iteration # None
          /\ metrics.convergence_iteration <= Len(initial_state.claims) + 1
          /\ Len(metrics.iterations) = metrics.convergence_iteration + 1)
  /\ [][PoolRun => Len(state'.claims) <= Len(state.claims)]_vars

\* a pool run that needed three iterations: one that merged, one that only put
\* the merged evidence in order, and the quiet one
C24_Witness ==
  /\ PoolRun
  /\ pc = "returned"
  /\ metrics.convergence_iteration = 2
  /\ Len(metrics.final_state.claims) < Len(initial_state.claims)
  /\ metrics.iterations[2].modifications # <<>>
  /\ \A e \in 1..Len(metrics.iterations[2].modifications) :
       metrics.iterations[2].modifications[e].operator = "normalize_evidence"

\* the applications of Merge(t) to the state a Merge(t) pass has just returned
SecondMerge ==
  MergeApply(new_state', claimHeap', listHeap', operators[opIndex].similarity_threshold)

\* C25 as stated: applying Merge(t) to the state a Merge(t) pass returned reports
\* modified = false, removes no claim and appends no merges record
C25_MergeOnePassFixedPoint ==
  [][StepOf("merge_duplicates") =>
       \A r \in SecondMerge :
         /\ ~r.modified
         /\ Len(r.state.claims) = Len(new_state'.claims)
         /\ MetaListOf(r.state.metadata.merges, r.listHeap)
              = MetaListOf(new_state'.metadata.merges, listHeap')]_vars

\* C25 amended: a Merge(t) pass that reports modified = false has returned a fixed
\* point (Merge(t) applied to the returned state reports modified = false, keeps
\* every claim and its fields and appends no record); a pass that reports
\* modified = true returns strictly fewer claims than it was given, and so does
\* any further pass on its result that reports modified = true
C25_MergeFixedPointWhenUnmodified ==
  [][StepOf("merge_duplicates") =>
       /\ modified' => Len(new_state'.claims) < Len(state.claims)
       /\ \A r \in SecondMerge :
            /\ r.modified => Len(r.state.claims) < Len(new_state'.claims)
            /\ ~modified' =>
                 /\ ~r.modified
                 /\ ViewOf(r.state, r.claimHeap, r.listHeap)
                      = ViewOf(new_state', claimHeap', listHeap')
                 /\ ViewOf(new_state', claimHeap', listHeap')
                      = ViewOf(state, claimHeap, listHeap)]_vars

\* a pass has just merged and accepted, and a second pass on its result would
\* merge again
C25_Witness ==
  /\ pc = "operators"
  /\ opIndex > 1
  /\ operators[opIndex - 1].name = "merge_duplicates"
  /\ modified
  /\ state = new_state
  /\ Len(state.claims) = Len(initial_state.claims) - 1
  /\ \E r \in MergeApply(state, claimHeap, listHeap,
                         operators[opIndex - 1].similarity_threshold) :
       /\ r.modified
       /\ Len(r.state.claims) = Len(state.claims) - 1

====
